---- MODULE Spec2Model ----
(***************************************************************************)
(* Quizzer: the loading / normalisation pipeline of src/src/loaders        *)
(* (json_loader, csv_loader, manager).                                     *)
(*                                                                         *)
(* Python values are modelled as JSON-like nodes of one uniform shape      *)
(*     [t |-> tag, s |-> characters, keys |-> keys, kids |-> children]     *)
(* with tag "null", "int", "str", "list" or "dict".  A Python str is the   *)
(* sequence of its characters (each a one-character string), so that       *)
(* strip(), upper(), split(',') and indexing are computed and not assumed. *)
(* A dict is the sequence of its keys in insertion order with the values   *)
(* at the same positions.                                                  *)
(***************************************************************************)
EXTENDS Integers, Sequences, FiniteSets, TLC

VARIABLES
    pc,         \* position of the driver of the operation under study
    raw,        \* manager._normalize_question: the raw record passed in
    max_choices,\* manager._normalize_question: its max_choices argument
    q,          \* manager._normalize_question: the dict it returns
    raised,     \* TRUE when the operation under study raised to its caller
    doc,        \* json_loader._find_questions_in_obj: the object passed in
    found,      \* json_loader._find_questions_in_obj: the value it returns
    files,      \* manager.load_from_files: the uploaded files, in order
    json_objs,  \* manager.load_from_files: indices of files routed to JSON
    csv_objs,   \* manager.load_from_files: indices of files routed to CSV
    results,    \* manager.load_from_files / load_from_folder: returned list
    folder,     \* manager.load_from_folder: what the path denotes on disk
    text,       \* app.extract_letters_from_string: the string passed in
    letters,    \* app.extract_letters_from_string: the list it returns
    question,   \* app.py grading loop: the question of the current turn
    resp,       \* app.py grading loop: st.session_state.responses.get(idx)
    corr,       \* app.py grading loop: get_correct_answers(question)
    gradeable,  \* app.py grading loop: bool(corr) and bool(ch)
    user_letters, \* app.py grading loop: the letters taken from resp
    is_correct, \* app.py grading loop: the verdict
    questions,  \* st.session_state.questions
    responses,  \* st.session_state.responses
    current_idx,\* st.session_state.current_idx
    loaded,     \* st.session_state.loaded
    shown,      \* the index of the question the current run displays, or -1
    event       \* the widget that started the current run of the script

\* the state of the frontend (app.py)
frontVars == <<text, letters, question, resp, corr, gradeable, user_letters,
               is_correct, questions, responses, current_idx, loaded, shown,
               event>>

\* the state of the loaders (src/loaders)
loaderVars == <<raw, max_choices, q, raised, doc, found, files, json_objs,
                csv_objs, results, folder>>

vars == <<pc, raw, max_choices, q, raised, doc, found, files, json_objs,
          csv_objs, results, folder, text, letters, question, resp, corr,
          gradeable, user_letters, is_correct, questions, responses,
          current_idx, loaded, shown, event>>

----------------------------------------------------------------------------
(* Bounds of the model *)

\* longest generated free-text string (characters)
MaxStrLen == 2
\* largest max_choices argument tried
MaxChoicesArg == 4
\* number of wrappers put around a JSON document core
MaxWrap == 1
\* number of files in an uploaded batch
MaxFiles == 2
\* number of data rows in a generated CSV table
MaxRows == 2

----------------------------------------------------------------------------
(* Python str, as sequences of characters *)

RECURSIVE SeqsUpTo(_, _)
\* every sequence over S of length at most n
SeqsUpTo(S, n) ==
    IF n = 0 THEN {<<>>}
    ELSE LET shorter == SeqsUpTo(S, n - 1)
         IN  shorter \cup {Append(x, c) : x \in shorter, c \in S}

AZ == {"A","B","C","D","E","F","G","H","I","J","K","L","M",
       "N","O","P","Q","R","S","T","U","V","W","X","Y","Z"}

\* 'A' <= ch <= 'Z'
IsAZ(ch) == ch \in AZ

\* str.isspace for one character
IsSpace(ch) == ch \in {" ", "\t", "\n", "\r"}

\* str.upper() of one character
UpperChar(ch) ==
    CASE ch = "a" -> "A"
      [] ch = "b" -> "B"
      [] ch = "c" -> "C"
      [] ch = "d" -> "D"
      [] ch = "j" -> "J"
      [] ch = "s" -> "S"
      [] ch = "o" -> "O"
      [] ch = "n" -> "N"
      [] ch = "v" -> "V"
      [] ch = "t" -> "T"
      [] ch = "x" -> "X"
      [] ch = "e" -> "E"
      [] OTHER -> ch

\* str.lower() of one character
LowerChar(ch) ==
    CASE ch = "A" -> "a"
      [] ch = "B" -> "b"
      [] ch = "C" -> "c"
      [] ch = "D" -> "d"
      [] ch = "J" -> "j"
      [] ch = "S" -> "s"
      [] ch = "O" -> "o"
      [] ch = "N" -> "n"
      [] ch = "V" -> "v"
      [] ch = "T" -> "t"
      [] ch = "X" -> "x"
      [] ch = "E" -> "e"
      [] OTHER -> ch

\* str.upper()
Upper(s) == [i \in 1..Len(s) |-> UpperChar(s[i])]

\* str.lower()
Lower(s) == [i \in 1..Len(s) |-> LowerChar(s[i])]

RECURSIVE LStrip(_)
LStrip(s) == IF s # <<>> /\ IsSpace(Head(s)) THEN LStrip(Tail(s)) ELSE s

RECURSIVE RStrip(_)
RStrip(s) ==
    IF s # <<>> /\ IsSpace(s[Len(s)]) THEN RStrip(SubSeq(s, 1, Len(s) - 1)) ELSE s

\* str.strip()
Strip(s) == RStrip(LStrip(s))

RECURSIVE SplitFrom(_, _, _)
\* the parts of s from position i on, cur being the part collected so far
SplitFrom(s, i, cur) ==
    IF i > Len(s) THEN <<cur>>
    ELSE IF s[i] = "," THEN <<cur>> \o SplitFrom(s, i + 1, <<>>)
    ELSE SplitFrom(s, i + 1, Append(cur, s[i]))

\* str.split(',')
SplitComma(s) == SplitFrom(s, 1, <<>>)

RECURSIVE Dedupe(_)
\* list(dict.fromkeys(xs)): first occurrences, in order
Dedupe(xs) ==
    IF xs = <<>> THEN <<>>
    ELSE LET init == Dedupe(SubSeq(xs, 1, Len(xs) - 1))
             x == xs[Len(xs)]
         IN  IF \E i \in 1..Len(init) : init[i] = x THEN init ELSE Append(init, x)

----------------------------------------------------------------------------
(* Python values *)

Null == [t |-> "null", s |-> <<>>, keys |-> <<>>, kids |-> <<>>]
PyInt(digits) == [t |-> "int", s |-> digits, keys |-> <<>>, kids |-> <<>>]
Str(chars) == [t |-> "str", s |-> chars, keys |-> <<>>, kids |-> <<>>]
List(items) == [t |-> "list", s |-> <<>>, keys |-> <<>>, kids |-> items]
Dict(ks, vs) == [t |-> "dict", s |-> <<>>, keys |-> ks, kids |-> vs]
EmptyDict == Dict(<<>>, <<>>)

IsStr(v) == v.t = "str"
IsList(v) == v.t = "list"
IsDict(v) == v.t = "dict"

\* bool(v)
Truthy(v) ==
    CASE v.t = "null" -> FALSE
      [] v.t = "int" -> v.s # <<"0">>
      [] v.t = "str" -> v.s # <<>>
      [] v.t = "list" -> v.kids # <<>>
      [] v.t = "dict" -> v.keys # <<>>

\* str(v) for a scalar v (the choice values of the model are scalars)
PyStr(v) == IF v.t = "null" THEN <<"N", "o", "n", "e">> ELSE v.s

\* k in d
Has(d, k) == \E i \in 1..Len(d.keys) : d.keys[i] = k

\* d.get(k): None when the key is absent
Get(d, k) ==
    IF Has(d, k)
    THEN d.kids[CHOOSE i \in 1..Len(d.keys) : d.keys[i] = k]
    ELSE Null

\* d[k] = v: an existing key keeps its position, a new key goes last
Put(d, k, v) ==
    IF Has(d, k)
    THEN Dict(d.keys, [i \in 1..Len(d.keys) |-> IF d.keys[i] = k THEN v ELSE d.kids[i]])
    ELSE Dict(Append(d.keys, k), Append(d.kids, v))

----------------------------------------------------------------------------
(* The keys the loaders read and write *)

kQuestionText == <<"q", "u", "e", "s", "t", "i", "o", "n", "_", "t", "e", "x", "t">>
kEnunciate == <<"e", "n", "u", "n", "c", "i", "a", "t", "e">>
kText == <<"t", "e", "x", "t">>
kAnswer == <<"a", "n", "s", "w", "e", "r">>
kCorrectAnswer == <<"c", "o", "r", "r", "e", "c", "t", "_", "a", "n", "s", "w", "e", "r">>
kAnswerET == <<"a", "n", "s", "w", "e", "r", "_", "E", "T">>
kAnswersCommunity == <<"a", "n", "s", "w", "e", "r", "s", "_", "c", "o", "m", "m", "u", "n", "i", "t", "y">>
kChoices == <<"c", "h", "o", "i", "c", "e", "s">>
kChoicePrefix == <<"c", "h", "o", "i", "c", "e", "_">>
kQuestions == <<"q", "u", "e", "s", "t", "i", "o", "n", "s">>
kPageProps == <<"p", "a", "g", "e", "P", "r", "o", "p", "s">>
kQuestionId == <<"q", "u", "e", "s", "t", "i", "o", "n", "_", "i", "d">>
kUrl == <<"u", "r", "l">>
kData == <<"d", "a", "t", "a">>
kOther == <<"x">>

----------------------------------------------------------------------------
(* manager.py: field parsers and the Question Normalizer *)

RECURSIVE StripUpperParts(_)
\* [p.strip().upper() for p in parts if p.strip()]
StripUpperParts(parts) ==
    IF parts = <<>> THEN <<>>
    ELSE LET p == Upper(Strip(Head(parts)))
         IN  (IF p # <<>> THEN <<Str(p)>> ELSE <<>>) \o StripUpperParts(Tail(parts))

RECURSIVE SplitItems(_)
\* for item in items: if isinstance(item, str): the stripped, uppercased,
\* non-empty comma-separated parts of item, appended in order
SplitItems(items) ==
    IF items = <<>> THEN <<>>
    ELSE (IF IsStr(Head(items)) THEN StripUpperParts(SplitComma(Head(items).s)) ELSE <<>>)
         \o SplitItems(Tail(items))

\* _parse_correct_answer_field(val)
ParseCorrectAnswerField(val) ==
    IF ~Truthy(val) THEN List(<<>>)
    ELSE IF IsList(val) THEN List(Dedupe(SplitItems(val.kids)))
    ELSE IF IsStr(val) THEN List(Dedupe(StripUpperParts(SplitComma(val.s))))
    ELSE List(<<>>)

\* str(k).strip().upper(), cut to its first character when longer than one
NormKey(k) ==
    LET kk == Upper(Strip(k))
    IN  IF Len(kk) > 1 THEN <<kk[1]>> ELSE kk

\* chr(ord('A') + i), for i up to 26 (the character after Z is the bracket)
ChrFromA(i) ==
    LET table == <<"A","B","C","D","E","F","G","H","I","J","K","L","M",
                   "N","O","P","Q","R","S","T","U","V","W","X","Y","Z","[">>
    IN  table[i + 1]

RECURSIVE NormalizedChoices(_, _, _)
\* the loop of _build_choices_from_row over an existing choices dict:
\* normalized[kk] = v if isinstance(v, str) else str(v)
NormalizedChoices(ch, i, acc) ==
    IF i > Len(ch.keys) THEN acc
    ELSE NormalizedChoices(ch, i + 1, Put(acc, NormKey(ch.keys[i]), Str(PyStr(ch.kids[i]))))

RECURSIVE ChoicesFromColumns(_, _, _, _)
\* the loop of _build_choices_from_row over the letters A.. (max_choices of them)
ChoicesFromColumns(row, n, i, acc) ==
    IF i >= n THEN acc
    ELSE LET letter == ChrFromA(i)
             k == Append(kChoicePrefix, letter)
             v == Get(row, k)
             next == IF Has(row, k) /\ v.t # "null"
                     THEN IF IsStr(v) /\ Strip(v.s) # <<>> THEN Put(acc, <<letter>>, Str(Strip(v.s)))
                          ELSE IF ~IsStr(v) THEN Put(acc, <<letter>>, Str(PyStr(v)))
                          ELSE acc
                     ELSE acc
         IN  ChoicesFromColumns(row, n, i + 1, next)

\* _build_choices_from_row(row, max_choices)
BuildChoicesFromRow(row, n) ==
    LET ch == Get(row, kChoices)
    IN  IF IsDict(ch) /\ Truthy(ch)
        THEN NormalizedChoices(ch, 1, EmptyDict)
        ELSE ChoicesFromColumns(row, n, 0, EmptyDict)

\* _normalize_question, step 1: question_text from enunciate, else from text
NormQuestionText(q0) ==
    IF ~Truthy(Get(q0, kQuestionText)) /\ Truthy(Get(q0, kEnunciate))
    THEN Put(q0, kQuestionText, Get(q0, kEnunciate))
    ELSE IF ~Truthy(Get(q0, kQuestionText)) /\ Truthy(Get(q0, kText))
    THEN Put(q0, kQuestionText, Get(q0, kText))
    ELSE q0

\* ResolveAnswer with answer_ET consulted before correct_answer
ResolveAnswer_ETFirst(q1) ==
    IF ~Has(q1, kAnswer) \/ ~IsList(Get(q1, kAnswer))
    THEN IF Has(q1, kAnswerET)
         THEN Put(q1, kAnswer, ParseCorrectAnswerField(Get(q1, kAnswerET)))
         ELSE IF Has(q1, kCorrectAnswer)
         THEN Put(q1, kAnswer, ParseCorrectAnswerField(Get(q1, kCorrectAnswer)))
         ELSE IF Has(q1, kAnswersCommunity) /\ IsList(Get(q1, kAnswersCommunity))
         THEN Put(q1, kAnswer, List(Dedupe(SplitItems(Get(q1, kAnswersCommunity).kids))))
         ELSE IF ~IsList(Get(q1, kAnswer)) THEN Put(q1, kAnswer, List(<<>>)) ELSE q1
    ELSE q1

\* ResolveAnswer that also stores the parsed list back under correct_answer
ResolveAnswer_Rewriting(q1) ==
    IF ~Has(q1, kAnswer) \/ ~IsList(Get(q1, kAnswer))
    THEN IF Has(q1, kCorrectAnswer)
         THEN Put(Put(q1, kAnswer, ParseCorrectAnswerField(Get(q1, kCorrectAnswer))),
                  kCorrectAnswer, ParseCorrectAnswerField(Get(q1, kCorrectAnswer)))
         ELSE IF Has(q1, kAnswerET)
         THEN Put(q1, kAnswer, ParseCorrectAnswerField(Get(q1, kAnswerET)))
         ELSE IF Has(q1, kAnswersCommunity) /\ IsList(Get(q1, kAnswersCommunity))
         THEN Put(q1, kAnswer, List(Dedupe(SplitItems(Get(q1, kAnswersCommunity).kids))))
         ELSE IF ~IsList(Get(q1, kAnswer)) THEN Put(q1, kAnswer, List(<<>>)) ELSE q1
    ELSE q1

\* _normalize_question, step 2: which field supplies the answer list
ResolveAnswer(q1) ==
    IF ~Has(q1, kAnswer) \/ ~IsList(Get(q1, kAnswer))
    THEN IF Has(q1, kCorrectAnswer)
         THEN Put(q1, kAnswer, ParseCorrectAnswerField(Get(q1, kCorrectAnswer)))
         ELSE IF Has(q1, kAnswerET)
         THEN Put(q1, kAnswer, ParseCorrectAnswerField(Get(q1, kAnswerET)))
         ELSE IF Has(q1, kAnswersCommunity) /\ IsList(Get(q1, kAnswersCommunity))
         THEN Put(q1, kAnswer, List(Dedupe(SplitItems(Get(q1, kAnswersCommunity).kids))))
         ELSE IF ~IsList(Get(q1, kAnswer)) THEN Put(q1, kAnswer, List(<<>>)) ELSE q1
    ELSE q1

\* _normalize_question, step 3: choices built from choice_X when there are none
SynthesizeChoices(q2, n) ==
    IF ~IsDict(Get(q2, kChoices)) \/ ~Truthy(Get(q2, kChoices))
    THEN LET choices == BuildChoicesFromRow(q2, n)
         IN  IF Truthy(choices) THEN Put(q2, kChoices, choices) ELSE q2
    ELSE q2

RECURSIVE FirstAZ(_)
\* for ch in letter: if 'A' <= ch <= 'Z': found = ch; break  (<<>> when none)
FirstAZ(s) ==
    IF s = <<>> THEN <<>>
    ELSE IF IsAZ(Head(s)) THEN <<Head(s)>> ELSE FirstAZ(Tail(s))

RECURSIVE NormAnswerItems_NoDedupe(_, _)
\* NormAnswerItems without the test "found not in norm_ans"
NormAnswerItems_NoDedupe(items, acc) ==
    IF items = <<>> THEN acc
    ELSE LET a == Head(items)
             fnd == IF IsStr(a) /\ Strip(a.s) # <<>> THEN FirstAZ(Upper(Strip(a.s))) ELSE <<>>
         IN  NormAnswerItems_NoDedupe(Tail(items), IF fnd # <<>> THEN Append(acc, Str(fnd)) ELSE acc)

RECURSIVE NormAnswerItems_Prepend(_, _)
\* NormAnswerItems with norm_ans.insert(0, found) for norm_ans.append(found)
NormAnswerItems_Prepend(items, acc) ==
    IF items = <<>> THEN acc
    ELSE LET a == Head(items)
             fnd == IF IsStr(a) /\ Strip(a.s) # <<>> THEN FirstAZ(Upper(Strip(a.s))) ELSE <<>>
             hit == fnd # <<>> /\ ~(\E i \in 1..Len(acc) : acc[i] = Str(fnd))
         IN  NormAnswerItems_Prepend(Tail(items), IF hit THEN <<Str(fnd)>> \o acc ELSE acc)

RECURSIVE NormAnswerItems_AsGiven(_, _)
\* NormAnswerItems with letter = a.strip(), not upper-cased
NormAnswerItems_AsGiven(items, acc) ==
    IF items = <<>> THEN acc
    ELSE LET a == Head(items)
             fnd == IF IsStr(a) /\ Strip(a.s) # <<>> THEN FirstAZ(Strip(a.s)) ELSE <<>>
             hit == fnd # <<>> /\ ~(\E i \in 1..Len(acc) : acc[i] = Str(fnd))
         IN  NormAnswerItems_AsGiven(Tail(items), IF hit THEN Append(acc, Str(fnd)) ELSE acc)

RECURSIVE NormAnswerItems(_, _)
\* the loop of step 4 over the answer list, norm_ans being collected in acc
NormAnswerItems(items, acc) ==
    IF items = <<>> THEN acc
    ELSE LET a == Head(items)
             fnd == IF IsStr(a) /\ Strip(a.s) # <<>> THEN FirstAZ(Upper(Strip(a.s))) ELSE <<>>
             hit == fnd # <<>> /\ ~(\E i \in 1..Len(acc) : acc[i] = Str(fnd))
         IN  NormAnswerItems(Tail(items), IF hit THEN Append(acc, Str(fnd)) ELSE acc)

\* _normalize_question, step 4: answer entries become single letters, no repeats
NormalizeAnswer(q3) ==
    IF IsList(Get(q3, kAnswer))
    THEN Put(q3, kAnswer, List(NormAnswerItems(Get(q3, kAnswer).kids, <<>>)))
    ELSE Put(q3, kAnswer, List(<<>>))

RECURSIVE RekeyChoices(_, _, _)
\* the loop of step 5: normalized_choices[kk] = v
RekeyChoices(ch, i, acc) ==
    IF i > Len(ch.keys) THEN acc
    ELSE RekeyChoices(ch, i + 1, Put(acc, NormKey(ch.keys[i]), ch.kids[i]))

\* _normalize_question, step 5: the keys of choices are normalized
NormalizeChoiceKeys(q4) ==
    IF IsDict(Get(q4, kChoices))
    THEN Put(q4, kChoices, RekeyChoices(Get(q4, kChoices), 1, EmptyDict))
    ELSE q4

\* dict(raw) raises: raw is no mapping and no empty iterable
DictCtorRaises(r) ==
    ~IsDict(r) /\ ~(r.t \in {"str", "list"} /\ ~Truthy(r))

\* q = dict(raw), for the values on which it does not raise
DictCtor(r) == IF IsDict(r) THEN r ELSE EmptyDict

\* _normalize_question(raw, max_choices), for a raw on which dict(raw) succeeds
NormalizeQuestion(r, n) ==
    NormalizeChoiceKeys(NormalizeAnswer(SynthesizeChoices(
        ResolveAnswer(NormQuestionText(DictCtor(r))), n)))

----------------------------------------------------------------------------
(* Raw records handed to the Normalizer *)

\* the default of the max_choices parameter
DefaultMaxChoices == 4

\* marks a field left out of a record under construction (never a value)
Absent == [t |-> "absent", s |-> <<>>, keys |-> <<>>, kids |-> <<>>]

RECURSIVE MkRecord(_)
\* the dict with the given <<key, value>> fields, in order, Absent ones left out
MkRecord(fields) ==
    IF fields = <<>> THEN EmptyDict
    ELSE LET rest == MkRecord(SubSeq(fields, 1, Len(fields) - 1))
             f == fields[Len(fields)]
         IN  IF f[2] = Absent THEN rest ELSE Put(rest, f[1], f[2])

AnswerChars == {"A", "b", ",", "1"}
AnswerTexts == SeqsUpTo(AnswerChars, MaxStrLen)

\* free-form values of an answer field: strings, lists of strings, other types
RichAnswerVals ==
    {Str(x) : x \in AnswerTexts} \cup {List(<<Str(x)>>) : x \in AnswerTexts}
    \cup {List(<<Str(<<"A">>), Str(<<"b", ")">>)>>), List(<<Str(<<"C">>), Str(<<" ", "c">>)>>),
          List(<<Str(<<"C", "B">>), Str(<<"A">>), Str(<<"B">>), Str(<<"a">>)>>),
          List(<<PyInt(<<"1">>), Str(<<"D">>)>>), PyInt(<<"7">>), Null, List(<<>>), Dict(<<<<"A">>>>, <<Str(<<"x">>)>>)}

AnswerSmall == {Absent, List(<<Str(<<"D">>)>>), Str(<<"D">>)}
CorrectAnswerSmall == {Absent, Str(<<"B">>), Str(<<>>)}
AnswerETSmall == {Absent, Str(<<"C">>)}
AnswersCommunitySmall == {Absent, List(<<Str(<<"A">>)>>), List(<<>>)}

AnswerRecord(a, c, e, m) ==
    MkRecord(<< <<kAnswersCommunity, m>>, <<kCorrectAnswer, c>>, <<kAnswerET, e>>, <<kAnswer, a>> >>)

\* records that differ in their answer sources: one source free-form at a time
AnswerRecords ==
    {AnswerRecord(a, c, e, m) : a \in AnswerSmall \cup RichAnswerVals, c \in CorrectAnswerSmall,
                                e \in AnswerETSmall, m \in AnswersCommunitySmall}
    \cup {AnswerRecord(a, c, e, m) : a \in AnswerSmall, c \in CorrectAnswerSmall \cup RichAnswerVals,
                                     e \in AnswerETSmall, m \in AnswersCommunitySmall}
    \cup {AnswerRecord(a, c, e, m) : a \in AnswerSmall, c \in CorrectAnswerSmall,
                                     e \in AnswerETSmall \cup RichAnswerVals, m \in AnswersCommunitySmall}
    \cup {AnswerRecord(a, c, e, m) : a \in AnswerSmall, c \in CorrectAnswerSmall,
                                     e \in AnswerETSmall, m \in AnswersCommunitySmall \cup RichAnswerVals}

KeyChars == {"a", "B", "1", " "}
KeyTexts == SeqsUpTo(KeyChars, MaxStrLen)
CollidingKeys == {<<"a">>, <<"A">>, <<"a", "b">>, <<" ", "a">>, <<>>}

\* values of an existing choices field
ChoicesVals ==
    {Absent, Null, EmptyDict, Str(<<"x">>), List(<<Str(<<"x">>)>>)}
    \cup {Dict(<<k>>, <<Str(<<"x">>)>>) : k \in KeyTexts}
    \cup {Dict(<<ks[1], ks[2]>>, <<Str(<<"x">>), PyInt(<<"2">>)>>) :
             ks \in {p \in CollidingKeys \X CollidingKeys : p[1] # p[2]}}

ChoiceAVals == {Absent, Null, Str(<<>>), Str(<<" ">>), Str(<<" ", "x">>), PyInt(<<"0">>)}
ChoiceBVals == {Absent, Str(<<"y">>)}
ChoiceDVals == {Absent, Str(<<"z">>)}

\* records that differ in their choices and choice_X fields
ChoiceRecords ==
    {MkRecord(<< <<kChoices, ch>>, <<Append(kChoicePrefix, "A"), ca>>,
                 <<Append(kChoicePrefix, "B"), cb>>, <<Append(kChoicePrefix, "D"), cd>>,
                 <<kCorrectAnswer, Str(<<"A">>)>> >>) :
        ch \in ChoicesVals, ca \in ChoiceAVals, cb \in ChoiceBVals, cd \in ChoiceDVals}

TextVals == {Absent, Null, Str(<<>>), Str(<<"t">>)}

\* records that differ in their text and passthrough fields
TextRecords ==
    {MkRecord(<< <<kQuestionText, t>>, <<kEnunciate, e>>, <<kText, x>>, <<kQuestionId, i>>, <<kUrl, u>> >>) :
        t \in TextVals, e \in {Absent, Str(<<"e">>), Str(<<>>)}, x \in {Absent, Str(<<"x">>)},
        i \in {Absent, PyInt(<<"7">>)}, u \in {Absent, Str(<<"u">>)}}

\* canonical questions: a non-empty choices mapping, an answer that is a list
\* of distinct single upper-case letters, and extra fields beside them
CanonicalRecords ==
    {MkRecord(<< <<kEnunciate, e>>, <<kCorrectAnswer, c>>, <<kChoices, ch>>,
                 <<Append(kChoicePrefix, "B"), cb>>, <<kAnswer, a>>, <<kOther, o>> >>) :
        e \in {Absent, Str(<<"e">>)}, c \in {Absent, Str(<<"C">>)},
        ch \in {Dict(<< <<"A">> >>, <<Str(<<"x">>)>>),
                Dict(<< <<"A">>, <<"B">> >>, <<Str(<<"x">>), PyInt(<<"2">>)>>),
                Dict(<< <<"b">>, <<"B">>, <<" ", "a", "1">> >>, <<Str(<<"x">>), Str(<<"y">>), Str(<<"z">>)>>)},
        cb \in {Absent, Str(<<"y">>)},
        a \in {List(<<>>), List(<<Str(<<"A">>)>>), List(<<Str(<<"B">>), Str(<<"A">>)>>)},
        o \in {Absent, List(<<Str(<<"o">>)>>)}}

\* records with every kind of field the Normalizer reads, and one it does not
FrameRecords ==
    {MkRecord(<< <<kOther, o>>, <<kQuestionId, i>>, <<kEnunciate, e>>, <<kText, x>>,
                 <<kAnswersCommunity, m>>, <<kCorrectAnswer, c>>, <<kAnswerET, t>>,
                 <<Append(kChoicePrefix, "A"), ca>>, <<kUrl, u>> >>) :
        o \in {Absent, Dict(<<kAnswer>>, <<Str(<<"o">>)>>)}, i \in {Absent, PyInt(<<"7">>)},
        e \in {Absent, Str(<<" ", "e">>)}, x \in {Absent, Str(<<"x">>)},
        m \in {Absent, List(<<Str(<<"a">>)>>)}, c \in {Absent, Str(<<"b", ",", "A">>)},
        t \in {Absent, Str(<<"c">>)}, ca \in {Absent, Str(<<" ", "x">>)}, u \in {Absent, Str(<<"u">>)}}

\* what a JSON list can hold besides mappings
NonMappings ==
    {Null, PyInt(<<"1">>), Str(<<"s">>), Str(<<>>), List(<<>>), List(<<PyInt(<<"1">>)>>)}

----------------------------------------------------------------------------
(* Specification SpecNorm: one call of manager._normalize_question *)

Idle == Null

\* the frontend before anything was loaded or graded
FrontIdle ==
    /\ text = Idle /\ letters = <<>>
    /\ question = Idle /\ resp = Idle /\ corr = <<>> /\ gradeable = FALSE
    /\ user_letters = <<>> /\ is_correct = FALSE
    /\ questions = <<>> /\ responses = <<>> /\ current_idx = 0
    /\ loaded = FALSE /\ shown = -1 /\ event = "none"

\* the loaders before any call
LoaderIdle ==
    /\ raw = Idle /\ max_choices = DefaultMaxChoices /\ q = Idle
    /\ raised = FALSE /\ doc = Idle /\ found = Idle
    /\ files = <<>> /\ json_objs = <<>> /\ csv_objs = <<>> /\ results = <<>>
    /\ folder = Idle

InitNorm ==
    /\ pc = "call"
    /\ \/ raw \in ChoiceRecords \cup CanonicalRecords /\ max_choices \in 0..MaxChoicesArg
       \/ raw \in AnswerRecords \cup TextRecords \cup FrameRecords \cup NonMappings
          /\ max_choices = DefaultMaxChoices
    /\ q = Idle
    /\ raised = FALSE
    /\ doc = Idle /\ found = Idle
    /\ files = <<>> /\ json_objs = <<>> /\ csv_objs = <<>> /\ results = <<>>
    /\ folder = Idle
    /\ FrontIdle

\* q = _normalize_question(raw, max_choices)
Normalize ==
    /\ pc = "call"
    /\ pc' = "done"
    /\ raised' = DictCtorRaises(raw)
    /\ q' = IF DictCtorRaises(raw) THEN Idle ELSE NormalizeQuestion(raw, max_choices)
    /\ UNCHANGED <<raw, max_choices, doc, found, files, json_objs, csv_objs, results, folder, frontVars>>

\* q = _normalize_question(q, max_choices): the Normalizer applied to its own
\* result
Renormalize ==
    /\ pc = "done" /\ ~raised
    /\ pc' = "again"
    /\ q' = NormalizeQuestion(q, max_choices)
    /\ UNCHANGED <<raw, max_choices, raised, doc, found, files, json_objs, csv_objs, results, folder, frontVars>>

NextNorm == Normalize \/ Renormalize

SpecNorm == InitNorm /\ [][NextNorm]_vars

----------------------------------------------------------------------------
(* Claims about the Normalizer, checked under SpecNorm *)

NormDone == pc = "done" /\ ~raised

\* the answer letters of a normalized question, as a sequence of characters
AnswerLetters(qn) ==
    LET a == Get(qn, kAnswer).kids
    IN  [i \in 1..Len(a) |-> a[i].s]

\* the letters a source yields when it is the only answer source of a record
Yield(r, k) == AnswerLetters(NormalizeQuestion(Dict(<<k>>, <<Get(r, k)>>), DefaultMaxChoices))

AnswerSources == {kAnswersCommunity, kCorrectAnswer, kAnswerET, kAnswer}
Carried(r) == {k \in AnswerSources : Has(r, k)}

\* the record carries several sources and each of them yields a letter
SeveralYieldingSources(r) ==
    /\ IsDict(r)
    /\ Cardinality(Carried(r)) >= 2
    /\ \A k \in Carried(r) : Yield(r, k) # <<>>

\* the first source of the order that the record carries
FirstCarried(order, r) == order[CHOOSE i \in 1..Len(order) :
                                   /\ Has(r, order[i])
                                   /\ \A j \in 1..(i - 1) : ~Has(r, order[j])]

SpecOrder == <<kAnswersCommunity, kCorrectAnswer, kAnswerET, kAnswer>>
CodeOrder == <<kAnswer, kCorrectAnswer, kAnswerET, kAnswersCommunity>>

Candidates(r) == Get(ResolveAnswer(NormQuestionText(DictCtor(r))), kAnswer).kids

\* whether the candidate holds a letter at all, case ignored
HasLetter(c) == IsStr(c) /\ \E n \in 1..Len(c.s) : UpperChar(c.s[n]) \in AZ

\* the first letter of a candidate that holds one, in upper case
LetterOf(c) ==
    UpperChar(c.s[CHOOSE n \in 1..Len(c.s) :
                      /\ UpperChar(c.s[n]) \in AZ
                      /\ \A m \in 1..(n - 1) : UpperChar(c.s[m]) \notin AZ])

\* the positions of the candidates whose letter it is
PositionsOf(r, letter) ==
    {i \in 1..Len(Candidates(r)) : HasLetter(Candidates(r)[i]) /\ LetterOf(Candidates(r)[i]) = letter}

\* the least element of a non-empty set of numbers
Least(S) == CHOOSE i \in S : \A j \in S : i <= j

\* C2: the normalized answer is a list of single letters A-Z, none twice, in
\* the order in which the candidates first supply them.
C2_AnswerIsLetterSet ==
    NormDone =>
        LET a == Get(q, kAnswer)
        IN  /\ IsList(a)
            /\ \A i \in 1..Len(a.kids) :
                   IsStr(a.kids[i]) /\ Len(a.kids[i].s) = 1 /\ a.kids[i].s[1] \in AZ
            /\ \A i, j \in 1..Len(a.kids) : i # j => a.kids[i] # a.kids[j]
            /\ \A i \in 1..Len(a.kids) : PositionsOf(raw, a.kids[i].s[1]) # {}
            /\ \A i, j \in 1..Len(a.kids) :
                   i < j => Least(PositionsOf(raw, a.kids[i].s[1]))
                                < Least(PositionsOf(raw, a.kids[j].s[1]))

\* C2 witness: candidates with noise and a repeated letter gave two letters.
C2_Witness ==
    /\ NormDone
    /\ Len(Candidates(raw)) = 4
    /\ \E i \in 1..Len(Candidates(raw)) : IsStr(Candidates(raw)[i]) /\ Len(Candidates(raw)[i].s) > 1
    /\ AnswerLetters(q) = << <<"C">>, <<"A">>, <<"B">> >>

\* C3 as stated: every key of a choices mapping of the result is one letter A-Z.
C3_ChoiceKeysAreLetters ==
    (NormDone /\ IsDict(Get(q, kChoices)))
        => \A i \in 1..Len(Get(q, kChoices).keys) :
               LET k == Get(q, kChoices).keys[i]
               IN  Len(k) = 1 /\ k[1] \in AZ

\* a canonical question: a mapping with a non-empty choices mapping and an
\* answer that is a list of distinct single upper-case letters
Canonical(r) ==
    /\ IsDict(r)
    /\ IsDict(Get(r, kChoices)) /\ Truthy(Get(r, kChoices))
    /\ IsList(Get(r, kAnswer))
    /\ \A i \in 1..Len(Get(r, kAnswer).kids) :
           LET a == Get(r, kAnswer).kids[i]
           IN  IsStr(a) /\ Len(a.s) = 1 /\ a.s[1] \in AZ
    /\ \A i, j \in 1..Len(Get(r, kAnswer).kids) :
           i # j => Get(r, kAnswer).kids[i] # Get(r, kAnswer).kids[j]

\* C11: for a canonical question, whatever max_choices, the Normalizer applied
\* to its own result gives that result again.
C11_Idempotent ==
    (pc = "again" /\ Canonical(raw)) => q = NormalizeQuestion(raw, max_choices)

\* C11 witness: a canonical question with two answer letters, a conflicting
\* correct_answer and an enunciate was normalized twice; the first pass had
\* changed it (question_text set, choices keys rewritten).
C11_Witness ==
    /\ pc = "again" /\ Canonical(raw)
    /\ Has(raw, kCorrectAnswer) /\ Has(raw, kEnunciate)
    /\ Len(Get(raw, kAnswer).kids) = 2
    /\ Get(raw, kChoices) # Get(q, kChoices)
    /\ max_choices # DefaultMaxChoices
    /\ Get(q, kQuestionText) = Get(raw, kEnunciate)
    /\ Get(q, kAnswer) = Get(raw, kAnswer)

\* the keys the Normalizer writes
WrittenKeys == {kQuestionText, kAnswer, kChoices}

\* C13: every key of the raw record other than question_text, answer and
\* choices is in the result with the value it had; none is removed.
C13_OtherKeysUntouched ==
    (NormDone /\ IsDict(raw)) =>
        \A i \in 1..Len(raw.keys) :
            raw.keys[i] \notin WrittenKeys
                => Has(q, raw.keys[i]) /\ Get(q, raw.keys[i]) = raw.kids[i]

\* C13 witness: a record with an unknown key, enunciate, correct_answer,
\* answer_ET, answers_community, choice_A and url was normalized, and all three
\* written keys were added to it.
C13_Witness ==
    /\ NormDone /\ IsDict(raw)
    /\ \A k \in {kOther, kEnunciate, kCorrectAnswer, kAnswerET, kAnswersCommunity,
                  Append(kChoicePrefix, "A"), kUrl} : Has(raw, k)
    /\ \A k \in WrittenKeys : ~Has(raw, k) /\ Has(q, k)
    /\ Len(q.keys) = Len(raw.keys) + 3

\* C14 as stated: a source that is present but yields no letter does not win:
\* when exactly one of the sources a record carries yields letters, those
\* letters are the answer.
C14_EmptySourceFallsThrough ==
    (NormDone /\ IsDict(raw)) =>
        \A k \in Carried(raw) :
            (/\ Yield(raw, k) # <<>>
             /\ \A j \in Carried(raw) \ {k} : Yield(raw, j) = <<>>)
                => AnswerLetters(q) = Yield(raw, k)

\* the first A-Z of a candidate as it is written, <<>> when it has none
AsGivenLetter(c) == IF IsStr(c) THEN FirstAZ(c.s) ELSE <<>>

\* the first A-Z of a candidate once upper-cased, <<>> when it has none
UpperCasedLetter(c) == IF HasLetter(c) THEN <<LetterOf(c)>> ELSE <<>>

RECURSIVE AsGivenLetters(_)
AsGivenLetters(cs) ==
    IF cs = <<>> THEN <<>>
    ELSE (IF AsGivenLetter(Head(cs)) # <<>> THEN <<AsGivenLetter(Head(cs))>> ELSE <<>>)
         \o AsGivenLetters(Tail(cs))

RECURSIVE UpperCasedLetters(_)
UpperCasedLetters(cs) ==
    IF cs = <<>> THEN <<>>
    ELSE (IF UpperCasedLetter(Head(cs)) # <<>> THEN <<UpperCasedLetter(Head(cs))>> ELSE <<>>)
         \o UpperCasedLetters(Tail(cs))

\* C17 as stated: each string candidate gives the first upper-case letter A-Z
\* that occurs in it as given; candidates without one are discarded.
C17_FirstUpperCaseAsGiven ==
    NormDone => AnswerLetters(q) = Dedupe(AsGivenLetters(Candidates(raw)))

\* C17 amended: each string candidate gives the first A-Z of the candidate
\* once stripped and upper-cased, so a lower-case letter counts and is taken in
\* upper case; candidates without a letter are discarded.
C17_FirstLetterUpperCased ==
    NormDone => AnswerLetters(q) = Dedupe(UpperCasedLetters(Candidates(raw)))

\* C17 witness: the answer list held the candidate "bA" and the answer is B.
C17_Witness ==
    /\ NormDone
    /\ Candidates(raw) = <<Str(<<"b", "A">>)>>
    /\ AnswerLetters(q) = << <<"B">> >>

----------------------------------------------------------------------------
(* json_loader.py: the Structure Locator *)

RECURSIVE FindQuestionsInObj_PagePropsFirst(_)
RECURSIVE FindInValues_PagePropsFirst(_)
FindInValues_PagePropsFirst(vs) ==
    IF vs = <<>> THEN Null
    ELSE LET res == FindQuestionsInObj_PagePropsFirst(Head(vs))
         IN  IF Truthy(res) THEN res ELSE FindInValues_PagePropsFirst(Tail(vs))

\* FindQuestionsInObj with pageProps looked at before questions
FindQuestionsInObj_PagePropsFirst(obj) ==
    IF IsDict(obj)
    THEN IF Has(obj, kPageProps) /\ IsDict(Get(obj, kPageProps))
                 /\ Has(Get(obj, kPageProps), kQuestions)
         THEN Get(Get(obj, kPageProps), kQuestions)
         ELSE IF Has(obj, kQuestions) /\ IsList(Get(obj, kQuestions))
         THEN Get(obj, kQuestions)
         ELSE FindInValues_PagePropsFirst(obj.kids)
    ELSE IF IsList(obj)
    THEN IF Len(obj.kids) > 0 /\ IsDict(obj.kids[1])
            /\ (Has(obj.kids[1], kQuestionText) \/ Has(obj.kids[1], kChoices))
         THEN obj
         ELSE FindInValues_PagePropsFirst(obj.kids)
    ELSE Null

RECURSIVE FindQuestionsInObj_AnyResult(_)
RECURSIVE FindInValues_AnyResult(_)
FindInValues_AnyResult(vs) ==
    IF vs = <<>> THEN Null
    ELSE LET res == FindQuestionsInObj_AnyResult(Head(vs))
         IN  IF res # Null THEN res ELSE FindInValues_AnyResult(Tail(vs))

\* FindQuestionsInObj with the loops testing "res is not None" instead of "res"
FindQuestionsInObj_AnyResult(obj) ==
    IF IsDict(obj)
    THEN IF Has(obj, kQuestions) /\ IsList(Get(obj, kQuestions))
         THEN Get(obj, kQuestions)
         ELSE IF Has(obj, kPageProps) /\ IsDict(Get(obj, kPageProps))
                 /\ Has(Get(obj, kPageProps), kQuestions)
         THEN Get(Get(obj, kPageProps), kQuestions)
         ELSE FindInValues_AnyResult(obj.kids)
    ELSE IF IsList(obj)
    THEN IF Len(obj.kids) > 0 /\ IsDict(obj.kids[1])
            /\ (Has(obj.kids[1], kQuestionText) \/ Has(obj.kids[1], kChoices))
         THEN obj
         ELSE FindInValues_AnyResult(obj.kids)
    ELSE Null

RECURSIVE FindQuestionsInObj(_)
RECURSIVE FindInValues(_)

\* the loops "for v in ...: res = _find_questions_in_obj(v); if res: return res":
\* the first result that is truthy, None (Null) when there is none
FindInValues(vs) ==
    IF vs = <<>> THEN Null
    ELSE LET res == FindQuestionsInObj(Head(vs))
         IN  IF Truthy(res) THEN res ELSE FindInValues(Tail(vs))

\* _find_questions_in_obj(obj); None is Null
FindQuestionsInObj(obj) ==
    IF IsDict(obj)
    THEN IF Has(obj, kQuestions) /\ IsList(Get(obj, kQuestions))
         THEN Get(obj, kQuestions)
         ELSE IF Has(obj, kPageProps) /\ IsDict(Get(obj, kPageProps))
                 /\ Has(Get(obj, kPageProps), kQuestions)
         THEN Get(Get(obj, kPageProps), kQuestions)
         ELSE FindInValues(obj.kids)
    ELSE IF IsList(obj)
    THEN IF Len(obj.kids) > 0 /\ IsDict(obj.kids[1])
            /\ (Has(obj.kids[1], kQuestionText) \/ Has(obj.kids[1], kChoices))
         THEN obj
         ELSE FindInValues(obj.kids)
    ELSE Null

----------------------------------------------------------------------------
(* JSON documents given to the Locator *)

\* a question-shaped record with a label
Question(label) == Dict(<<kQuestionText>>, <<Str(<<label>>)>>)

\* values of a pageProps.questions entry
NestedVals ==
    {List(<<>>), List(<<Question("1")>>), List(<<Question("1"), Question("2")>>),
     List(<<PyInt(<<"1">>)>>), Null, Str(<<"s">>)}

\* values of a top-level questions entry (or none)
TopVals ==
    {Absent, List(<<>>), List(<<Question("3")>>), Str(<<"s">>), Null,
     Dict(<<kOther>>, <<List(<<Question("6")>>)>>)}

\* values of a pageProps entry that holds no questions (or none)
PlainPageProps == {Absent, EmptyDict, List(<<Question("7")>>)}

\* the innermost part of a document
Cores ==
    {MkRecord(<< <<kQuestions, t>>, <<kPageProps, Dict(<<kQuestions>>, <<n>>)>> >>) :
        t \in TopVals, n \in NestedVals}
    \cup {MkRecord(<< <<kQuestions, t>>, <<kPageProps, pp>> >>) : t \in TopVals, pp \in PlainPageProps}
    \cup {List(<<>>), List(<<Question("8"), Question("9")>>), List(<<PyInt(<<"1">>), Null>>),
          Question("0"), Str(<<"s">>), PyInt(<<"5">>), Null}

\* values that may sit beside the part of the document that leads to the core
Siblings ==
    {Str(<<"s">>), List(<<>>), List(<<Question("4")>>),
     Dict(<<kQuestions>>, <<List(<<Question("5")>>)>>), Dict(<<kQuestions>>, <<List(<<>>)>>)}

\* a document put one level down: under a key or in a list, alone or beside
\* a sibling that is visited before or after it
Wrappings(d) ==
    {Dict(<<kData>>, <<d>>), List(<<d>>)}
    \cup {Dict(<<kOther, kData>>, <<sib, d>>) : sib \in Siblings}
    \cup {Dict(<<kData, kOther>>, <<d, sib>>) : sib \in Siblings}
    \cup {List(<<sib, d>>) : sib \in Siblings}
    \cup {List(<<d, sib>>) : sib \in Siblings}

RECURSIVE Documents(_)
\* the cores put at most n levels down
Documents(n) ==
    IF n = 0 THEN Cores
    ELSE Documents(n - 1) \cup UNION {Wrappings(d) : d \in Documents(n - 1)}

----------------------------------------------------------------------------
(* Specification SpecLocate: one call of json_loader._find_questions_in_obj *)

InitLocate ==
    /\ pc = "call"
    /\ doc \in Documents(MaxWrap)
    /\ found = Idle
    /\ raw = Idle /\ max_choices = DefaultMaxChoices /\ q = Idle
    /\ raised = FALSE
    /\ files = <<>> /\ json_objs = <<>> /\ csv_objs = <<>> /\ results = <<>>
    /\ folder = Idle
    /\ FrontIdle

\* found = _find_questions_in_obj(doc)
Locate ==
    /\ pc = "call"
    /\ pc' = "done"
    /\ found' = FindQuestionsInObj(doc)
    /\ UNCHANGED <<raw, max_choices, q, raised, doc, files, json_objs, csv_objs, results, folder, frontVars>>

NextLocate == Locate

SpecLocate == InitLocate /\ [][NextLocate]_vars

----------------------------------------------------------------------------
(* Claims about the Locator, checked under SpecLocate *)

\* the value is a mapping whose pageProps is a mapping with a questions key
HoldsPageProps(v) ==
    IsDict(v) /\ Has(v, kPageProps) /\ IsDict(Get(v, kPageProps))
    /\ Has(Get(v, kPageProps), kQuestions)

NestedQuestions(v) == Get(Get(v, kPageProps), kQuestions)

\* C9 as stated: with a top-level questions key and a pageProps.questions, the
\* value of the top-level key is returned, whatever it is.
C9_TopLevelWins ==
    (pc = "done" /\ HoldsPageProps(doc) /\ Has(doc, kQuestions))
        => found = Get(doc, kQuestions)

\* C9 amended: with a top-level questions key whose value is a list (empty or
\* not) and a pageProps.questions, the top-level list is returned; with a
\* top-level value that is no list, pageProps.questions is returned.
C9_TopLevelListWins ==
    (pc = "done" /\ HoldsPageProps(doc) /\ Has(doc, kQuestions))
        => found = IF IsList(Get(doc, kQuestions))
                   THEN Get(doc, kQuestions) ELSE NestedQuestions(doc)

\* C9 witness: an empty top-level list won over a non-empty pageProps.questions.
C9_Witness ==
    /\ pc = "done" /\ HoldsPageProps(doc) /\ Has(doc, kQuestions)
    /\ Get(doc, kQuestions) = List(<<>>)
    /\ Truthy(NestedQuestions(doc))
    /\ found = List(<<>>)

RECURSIVE PagePropsHolders(_)
\* the mappings anywhere in the value that hold a pageProps.questions
PagePropsHolders(v) ==
    (IF HoldsPageProps(v) THEN {v} ELSE {})
    \cup UNION {PagePropsHolders(v.kids[i]) : i \in 1..Len(v.kids)}

NoTopLevelQuestions(v) == ~(IsDict(v) /\ Has(v, kQuestions))

\* C10 as stated: a document without top-level questions key that contains a
\* pageProps.questions = L anywhere yields exactly L.
C10_NestedListReturned ==
    (pc = "done" /\ NoTopLevelQuestions(doc))
        => \A h \in PagePropsHolders(doc) : found = NestedQuestions(h)

RECURSIVE SoleDescent(_, _)
\* h is v, or v is a mapping with one key (not questions) or a list with one
\* item (not question-shaped) and h is reached that way from its only child
SoleDescent(v, h) ==
    \/ v = h
    \/ /\ Len(v.kids) = 1
       /\ IsDict(v) => v.keys[1] # kQuestions
       /\ IsList(v) => ~(IsDict(v.kids[1]) /\ (Has(v.kids[1], kQuestionText) \/ Has(v.kids[1], kChoices)))
       /\ SoleDescent(v.kids[1], h)

\* C10 amended: without top-level questions key, (a) when the document itself
\* holds pageProps.questions = L, exactly L is returned, empty or not; (b) when
\* the holder sits deeper with nothing else on the way (only children, itself
\* without a questions list), L is returned when it is non-empty and None when
\* it is empty; (c) whenever the holders all sit deeper, the result is None or
\* non-empty.
C10_NestedListWhenFirstAndNonEmpty ==
    (pc = "done" /\ NoTopLevelQuestions(doc))
        => /\ HoldsPageProps(doc) => found = NestedQuestions(doc)
           /\ \A h \in PagePropsHolders(doc) :
                  (h # doc /\ SoleDescent(doc, h) /\ NoTopLevelQuestions(h))
                      => found = IF Truthy(NestedQuestions(h)) THEN NestedQuestions(h) ELSE Null
           /\ (PagePropsHolders(doc) # {} /\ ~HoldsPageProps(doc))
                  => (found = Null \/ Truthy(found))

\* C10 witness: a non-empty pageProps.questions one level down, alone, was
\* returned.
C10_Witness ==
    /\ pc = "done" /\ NoTopLevelQuestions(doc) /\ ~HoldsPageProps(doc)
    /\ \E h \in PagePropsHolders(doc) :
           /\ SoleDescent(doc, h) /\ NoTopLevelQuestions(h)
           /\ Len(NestedQuestions(h).kids) = 2
           /\ found = NestedQuestions(h)

----------------------------------------------------------------------------
(* Uploaded files.  The content of a file is modelled by what the decoders  *)
(* make of its bytes:                                                       *)
(*   "unreadable"  read() raises                                            *)
(*   "badbytes"    bytes that are not UTF-8                                 *)
(*   "text"        one line of text that is no JSON document                *)
(*   "json"        one line of text that is the JSON document doc           *)
(*   "csv"         a table: header line, then rows; bad, when not 0, is the *)
(*                 number of the line at which csv.reader raises csv.Error  *)
(* Read as CSV, one line of text is a header without data rows; read as     *)
(* JSON, a table is no JSON document.                                       *)

Content(kind, d, header, rows, bad) ==
    [kind |-> kind, doc |-> d, header |-> header, rows |-> rows, bad |-> bad]

Unreadable == Content("unreadable", Null, <<>>, <<>>, 0)
BadBytes == Content("badbytes", Null, <<>>, <<>>, 0)
PlainText == Content("text", Null, <<>>, <<>>, 0)
JsonText(d) == Content("json", d, <<>>, <<>>, 0)
CsvText(header, rows, bad) == Content("csv", Null, header, rows, bad)

File(name, content) == [name |-> name, content |-> content]

\* an outcome of a loader: it raised, or it returned the list out
Raise == [raised |-> TRUE, out |-> <<>>]
Return(out) == [raised |-> FALSE, out |-> out]

\* uploaded.read() succeeds
ReadOk(c) == c.kind # "unreadable"

\* raw.decode('utf-8') succeeds
DecodeOk(c) == c.kind # "badbytes"

\* json.loads(text) succeeds
JsonLoadsOk(c) == c.kind = "json"

\* _is_json_bytes(data)
IsJsonBytes(c) == DecodeOk(c) /\ JsonLoadsOk(c)

\* Path(name).suffix of a name without directory part: from the last dot on,
\* unless that dot is the first or the last character
PathSuffix(name) ==
    LET dots == {i \in 1..Len(name) : name[i] = "."}
    IN  IF dots = {} THEN <<>>
        ELSE LET i == CHOOSE d \in dots : \A e \in dots : e <= d
             IN  IF 1 < i /\ i < Len(name) THEN SubSeq(name, i, Len(name)) ELSE <<>>

DotJson == <<".", "j", "s", "o", "n">>
DotCsv == <<".", "c", "s", "v">>

----------------------------------------------------------------------------
(* json_loader.load_from_files and csv_loader.load_from_files *)

\* the items questions.extend(v) appends: those of a list, the keys of a
\* mapping, the characters of a string
Iterate(v) ==
    CASE IsList(v) -> v.kids
      [] IsDict(v) -> [i \in 1..Len(v.keys) |-> Str(v.keys[i])]
      [] IsStr(v) -> [i \in 1..Len(v.s) |-> Str(<<v.s[i]>>)]

\* questions.extend(v) raises TypeError: v is not iterable
ExtendRaises(v) == v.t \notin {"list", "dict", "str"}

\* json_loader.load_from_files, one turn of its loop: what the file adds
JsonFileRecords(c) ==
    IF ~ReadOk(c) \/ ~DecodeOk(c) \/ ~JsonLoadsOk(c) THEN Return(<<>>)
    ELSE LET data == c.doc
             fnd == FindQuestionsInObj(data)
         IN  IF Truthy(fnd)
             THEN IF ExtendRaises(fnd) THEN Raise ELSE Return(Iterate(fnd))
             ELSE IF IsList(data) THEN Return(data.kids)
             ELSE IF IsDict(data) THEN Return(<<data>>)
             ELSE Return(<<>>)

RECURSIVE JsonLoadFromFiles(_)
\* json_loader.load_from_files(files): the files' records in order; an
\* exception of one turn ends the call
JsonLoadFromFiles(cs) ==
    IF cs = <<>> THEN Return(<<>>)
    ELSE LET init == JsonLoadFromFiles(SubSeq(cs, 1, Len(cs) - 1))
             last == JsonFileRecords(cs[Len(cs)])
         IN  IF init.raised \/ last.raised THEN Raise ELSE Return(init.out \o last.out)

\* csv_loader._parse_correct_answers(value); no value is None (Null)
ParseCorrectAnswers(value) ==
    IF ~Truthy(value) THEN List(<<>>)
    ELSE List(StripUpperParts(SplitComma(PyStr(value))))

RECURSIVE RowDict(_, _, _)
\* the dict of one row: csv.DictReader pairs the header with the cells (None
\* for a missing cell), the loader strips keys and string values
RowDict(header, cells, i) ==
    IF i = 0 THEN EmptyDict
    ELSE LET k == IF header[i] # <<>> THEN Strip(header[i]) ELSE header[i]
             v == IF i <= Len(cells) THEN Str(Strip(cells[i])) ELSE Null
         IN  Put(RowDict(header, cells, i - 1), k, v)

\* CsvRow that rewrites correct_answer only in a row that has the column
CsvRow_OnlyWhenPresent(header, cells) ==
    LET row == RowDict(header, cells, Len(header))
    IN  IF Has(row, kCorrectAnswer)
        THEN Put(row, kCorrectAnswer, ParseCorrectAnswers(Get(row, kCorrectAnswer)))
        ELSE row

\* the row as the loader appends it: correct_answer rewritten into a list
CsvRow(header, cells) ==
    LET row == RowDict(header, cells, Len(header))
    IN  Put(row, kCorrectAnswer, ParseCorrectAnswers(Get(row, kCorrectAnswer)))

\* the rows csv.DictReader yields for the content
TableRows(c) == IF c.kind = "csv" THEN c.rows ELSE <<>>

\* csv_loader.load_from_files, one turn of its loop: what the file adds
CsvFileRecords(c) ==
    IF ~ReadOk(c) \/ ~DecodeOk(c) THEN Return(<<>>)
    ELSE IF c.kind = "csv" /\ c.bad # 0 THEN Raise
    ELSE Return([i \in 1..Len(TableRows(c)) |-> CsvRow(c.header, TableRows(c)[i])])

RECURSIVE CsvLoadFromFiles(_)
\* csv_loader.load_from_files(files)
CsvLoadFromFiles(cs) ==
    IF cs = <<>> THEN Return(<<>>)
    ELSE LET init == CsvLoadFromFiles(SubSeq(cs, 1, Len(cs) - 1))
             last == CsvFileRecords(cs[Len(cs)])
         IN  IF init.raised \/ last.raised THEN Raise ELSE Return(init.out \o last.out)

----------------------------------------------------------------------------
(* manager.load_from_files *)

\* RouteOf with the suffix compared as written, not lower-cased
RouteOf_CaseSensitive(f) ==
    IF ~ReadOk(f.content) THEN "skip"
    ELSE LET ext == PathSuffix(f.name)
         IN  IF ext = DotJson THEN "json"
             ELSE IF ext = DotCsv THEN "csv"
             ELSE IF IsJsonBytes(f.content) THEN "json"
             ELSE "skip"

\* the branch of the routing loop a file takes: "json", "csv" or "skip"
RouteOf(f) ==
    IF ~ReadOk(f.content) THEN "skip"
    ELSE LET ext == Lower(PathSuffix(f.name))
         IN  IF ext = DotJson THEN "json"
             ELSE IF ext = DotCsv THEN "csv"
             ELSE IF IsJsonBytes(f.content) THEN "json"
             ELSE "skip"

RECURSIVE Routed(_, _, _)
\* the positions, in order, of the files from position i on that take the route
Routed(fs, route, i) ==
    IF i > Len(fs) THEN <<>>
    ELSE (IF RouteOf(fs[i]) = route THEN <<i>> ELSE <<>>) \o Routed(fs, route, i + 1)

\* the buffers made for the files at the given positions
Buffers(fs, positions) == [n \in 1..Len(positions) |-> fs[positions[n]].content]

\* results.append(_normalize_question(raw_q, max_choices)) for each raw_q
NormalizeAll(records, n) ==
    IF \E i \in 1..Len(records) : DictCtorRaises(records[i]) THEN Raise
    ELSE Return([i \in 1..Len(records) |-> NormalizeQuestion(records[i], n)])

\* LoadGroups with the CSV group put before the JSON group
LoadGroups_CsvFirst(jsons, csvs, n) ==
    LET rawj == JsonLoadFromFiles(jsons)
        normj == IF rawj.raised THEN Raise ELSE NormalizeAll(rawj.out, n)
        rawc == CsvLoadFromFiles(csvs)
        normc == IF rawc.raised THEN Raise ELSE NormalizeAll(rawc.out, n)
    IN  IF normj.raised \/ normc.raised THEN Raise ELSE Return(normc.out \o normj.out)

\* the second half of manager.load_from_files: the JSON group, then the CSV
\* group, each record normalized
LoadGroups(jsons, csvs, n) ==
    LET rawj == JsonLoadFromFiles(jsons)
        normj == IF rawj.raised THEN Raise ELSE NormalizeAll(rawj.out, n)
        rawc == CsvLoadFromFiles(csvs)
        normc == IF rawc.raised THEN Raise ELSE NormalizeAll(rawc.out, n)
    IN  IF normj.raised \/ normc.raised THEN Raise ELSE Return(normj.out \o normc.out)

\* manager.load_from_files(files, max_choices)
ManagerLoadFromFiles(fs, n) ==
    LoadGroups(Buffers(fs, Routed(fs, "json", 1)), Buffers(fs, Routed(fs, "csv", 1)), n)

----------------------------------------------------------------------------
(* Specification SpecLoad: one call of manager.load_from_files *)

FileNames ==
    {<<"a", ".", "j", "s", "o", "n">>, <<"a", ".", "J", "S", "O", "N">>,
     <<"b", ".", "c", "s", "v">>, <<"c">>, <<".", "c", "s", "v">>}

LabelledQuestion(label, answer) ==
    Dict(<<kQuestionText, kAnswer>>, <<Str(<<label>>), List(<<Str(<<answer>>)>>)>>)

JsonDocs ==
    {Dict(<<kQuestions>>, <<List(<<LabelledQuestion("1", "A"), LabelledQuestion("2", "B")>>)>>),
     Dict(<<kData>>, <<Dict(<<kPageProps>>, <<Dict(<<kQuestions>>, <<List(<<Question("3")>>)>>)>>)>>),
     LabelledQuestion("4", "c"),
     List(<<PyInt(<<"1">>), Question("5")>>)}

CsvTables ==
    {CsvText(<<kQuestionText, kCorrectAnswer>>,
             << <<<<"6">>, <<"A">>>>, <<<<"7">>, <<" ", "b", ",", "A">>>> >>, 0),
     CsvText(<<kQuestionText, kCorrectAnswer>>,
             << <<<<"8">>, <<"A">>>>, <<<<"9">>>> >>, 3)}

FileContents ==
    {Unreadable, BadBytes, PlainText} \cup {JsonText(d) : d \in JsonDocs} \cup CsvTables

UploadedFiles == {File(n, c) : n \in FileNames, c \in FileContents}

InitLoad ==
    /\ pc = "call"
    /\ files \in SeqsUpTo(UploadedFiles, MaxFiles)
    /\ max_choices = DefaultMaxChoices
    /\ json_objs = <<>> /\ csv_objs = <<>> /\ results = <<>>
    /\ raised = FALSE
    /\ raw = Idle /\ q = Idle /\ doc = Idle /\ found = Idle /\ folder = Idle
    /\ FrontIdle

\* results = manager.load_from_files(files, max_choices)
LoadFromFiles ==
    /\ pc = "call"
    /\ pc' = "done"
    /\ json_objs' = Routed(files, "json", 1)
    /\ csv_objs' = Routed(files, "csv", 1)
    /\ LET res == ManagerLoadFromFiles(files, max_choices)
       IN  raised' = res.raised /\ results' = res.out
    /\ UNCHANGED <<raw, max_choices, q, doc, found, files, folder, frontVars>>

NextLoad == LoadFromFiles

SpecLoad == InitLoad /\ [][NextLoad]_vars

----------------------------------------------------------------------------
(* Claims about manager.load_from_files, checked under SpecLoad *)

\* what manager.load_from_files returns for the file alone
Alone(f) == ManagerLoadFromFiles(<<f>>, DefaultMaxChoices)

RECURSIVE ConcatAlone(_, _)
\* the records of the files at the given positions, each loaded alone, joined
ConcatAlone(fs, positions) ==
    IF positions = <<>> THEN <<>>
    ELSE Alone(fs[Head(positions)]).out \o ConcatAlone(fs, Tail(positions))

AllPositions(fs) == [i \in 1..Len(fs) |-> i]

\* C4 as stated: the output is the files' records joined in input order.
C4_InputOrder ==
    (pc = "done" /\ ~raised) => results = ConcatAlone(files, AllPositions(files))

\* C4 amended: the output is the records of the files routed to the JSON
\* loader, in input order, followed by the records of the files routed to the
\* CSV loader, in input order; the order within a file is kept.
C4_JsonGroupThenCsvGroup ==
    (pc = "done" /\ ~raised)
        => results = ConcatAlone(files, json_objs) \o ConcatAlone(files, csv_objs)

\* C4 witness: a CSV file before a JSON file, both with records; the JSON
\* records came out first.
C4_Witness ==
    /\ pc = "done" /\ ~raised
    /\ Len(files) = 2 /\ csv_objs = <<1>> /\ json_objs = <<2>>
    /\ Len(Alone(files[1]).out) = 2 /\ Len(Alone(files[2]).out) = 2
    /\ results = Alone(files[2]).out \o Alone(files[1]).out

\* C5 as stated: manager.load_from_files never raises to its caller.
C5_NeverRaises == pc = "done" => ~raised

\* the file is unreadable or unparseable for the loader it is routed to
Spoiled(f) ==
    \/ ~ReadOk(f.content)
    \/ RouteOf(f) \in {"json", "csv"} /\ ~DecodeOk(f.content)
    \/ RouteOf(f) = "json" /\ ~JsonLoadsOk(f.content)
    \/ RouteOf(f) = "csv" /\ f.content.kind = "csv" /\ f.content.bad # 0

\* the batch without the file at position i
Without(fs, i) == SubSeq(fs, 1, i - 1) \o SubSeq(fs, i + 1, Len(fs))

\* C6 as stated: a spoiled file at any position changes nothing for the other
\* files: the call does what it does for the batch without that file.
C6_FailureIsolation ==
    pc = "done" =>
        \A i \in 1..Len(files) :
            Spoiled(files[i]) =>
                [raised |-> raised, out |-> results]
                    = ManagerLoadFromFiles(Without(files, i), max_choices)

EndsWith(name, tail) ==
    Len(name) >= Len(tail) /\ SubSeq(name, Len(name) - Len(tail) + 1, Len(name)) = tail

InSeq(x, xs) == \E i \in 1..Len(xs) : xs[i] = x

\* C8 as stated: a readable file whose name ends in .json (any case) goes to
\* the JSON loader only, one whose name ends in .csv to the CSV loader only,
\* any other to the JSON loader iff its content is UTF-8 and JSON, else nowhere.
C8_RoutedByNameEnding ==
    pc = "done" =>
        \A i \in 1..Len(files) :
            ReadOk(files[i].content) =>
                LET name == Lower(files[i].name)
                    to_json == \/ EndsWith(name, DotJson)
                               \/ /\ ~EndsWith(name, DotCsv)
                                  /\ IsJsonBytes(files[i].content)
                    to_csv == ~EndsWith(name, DotJson) /\ EndsWith(name, DotCsv)
                IN  /\ InSeq(i, json_objs) <=> to_json
                    /\ InSeq(i, csv_objs) <=> to_csv

\* the extension of a name: what follows a last dot that is neither the first
\* nor the last character, the dot included
Extension(name) ==
    IF \E i \in 2..(Len(name) - 1) : name[i] = "." /\ \A j \in (i + 1)..Len(name) : name[j] # "."
    THEN LET i == CHOOSE d \in 2..(Len(name) - 1) :
                      name[d] = "." /\ \A j \in (d + 1)..Len(name) : name[j] # "."
         IN  [n \in 1..(Len(name) - i + 1) |-> name[i + n - 1]]
    ELSE <<>>

\* C8 amended: the same rules with "extension" for "name ending": a name that
\* is only .json or .csv has no extension and is classified by its content.
C8_RoutedByExtension ==
    pc = "done" =>
        \A i \in 1..Len(files) :
            ReadOk(files[i].content) =>
                LET ext == Lower(Extension(files[i].name))
                    to_json == ext = DotJson \/ (ext # DotCsv /\ IsJsonBytes(files[i].content))
                    to_csv == ext = DotCsv
                IN  /\ InSeq(i, json_objs) <=> to_json
                    /\ InSeq(i, csv_objs) <=> to_csv
                    /\ ~(InSeq(i, json_objs) /\ InSeq(i, csv_objs))

\* C8 witness: a file named b.csv whose content is a JSON document went to the
\* CSV loader, and a file without extension holding JSON to the JSON loader.
C8_Witness ==
    /\ pc = "done" /\ Len(files) = 2
    /\ Lower(Extension(files[1].name)) = DotCsv /\ IsJsonBytes(files[1].content)
    /\ csv_objs = <<1>>
    /\ Extension(files[2].name) = <<>> /\ files[2].name # <<>> /\ files[2].name[1] # "."
    /\ IsJsonBytes(files[2].content)
    /\ json_objs = <<2>>

----------------------------------------------------------------------------
(* manager.load_from_folder.  The path denotes nothing ("missing"), something *)
(* that is no directory ("file"), or a directory ("dir") whose files, at any  *)
(* depth, are entries, in the order in which glob yields them.  File names    *)
(* are matched as on a case-sensitive file system.                            *)

Folder(kind, entries) == [kind |-> kind, entries |-> entries]

RECURSIVE Globbed(_, _, _)
\* the contents of the entries from position i on whose name matches *<tail>
Globbed(entries, tail, i) ==
    IF i > Len(entries) THEN <<>>
    ELSE (IF EndsWith(entries[i].name, tail) THEN <<entries[i].content>> ELSE <<>>)
         \o Globbed(entries, tail, i + 1)

\* ManagerLoadFromFolder with a path that is no directory raising
ManagerLoadFromFolder_Raising(fd, n) ==
    IF fd.kind # "dir" THEN Raise
    ELSE LoadGroups(Globbed(fd.entries, DotJson, 1), Globbed(fd.entries, DotCsv, 1), n)

\* manager.load_from_folder(folder_path, max_choices); the two loaders'
\* load_from_folder treat each file as their load_from_files does
ManagerLoadFromFolder(fd, n) ==
    IF fd.kind # "dir" THEN Return(<<>>)
    ELSE LoadGroups(Globbed(fd.entries, DotJson, 1), Globbed(fd.entries, DotCsv, 1), n)

----------------------------------------------------------------------------
(* Specification SpecFolder: one call of manager.load_from_folder *)

FolderFiles ==
    {File(n, c) : n \in FileNames \ {<<"a", ".", "J", "S", "O", "N">>}, c \in FileContents}

InitFolder ==
    /\ pc = "call"
    /\ folder \in {Folder("missing", <<>>), Folder("file", <<>>)}
                  \cup {Folder("dir", es) : es \in SeqsUpTo(FolderFiles, MaxFiles)}
    /\ max_choices = DefaultMaxChoices
    /\ files = <<>> /\ json_objs = <<>> /\ csv_objs = <<>> /\ results = <<>>
    /\ raised = FALSE
    /\ raw = Idle /\ q = Idle /\ doc = Idle /\ found = Idle
    /\ FrontIdle

\* results = manager.load_from_folder(folder, max_choices)
LoadFromFolder ==
    /\ pc = "call"
    /\ pc' = "done"
    /\ LET res == ManagerLoadFromFolder(folder, max_choices)
       IN  raised' = res.raised /\ results' = res.out
    /\ UNCHANGED <<raw, max_choices, q, doc, found, files, json_objs, csv_objs, folder, frontVars>>

NextFolder == LoadFromFolder

SpecFolder == InitFolder /\ [][NextFolder]_vars

----------------------------------------------------------------------------
(* Claims about manager.load_from_folder, checked under SpecFolder *)

\* what the caller sees of a call
Outcome == [raised |-> raised, out |-> results]

\* an existing folder from which no question is loaded and nothing raises
ZeroQuestionFolders ==
    {Folder("dir", <<>>), Folder("dir", <<File(<<"a", ".", "j", "s", "o", "n">>, PlainText)>>),
     Folder("dir", <<File(<<"c">>, JsonText(Question("1")))>>)}

\* C7 as stated: what the caller gets for a path that is no existing folder
\* differs from what it gets for an existing folder with zero questions.
C7_MissingFolderDistinct ==
    (pc = "done" /\ folder.kind # "dir")
        => \A z \in ZeroQuestionFolders :
               Outcome # ManagerLoadFromFolder(z, max_choices)

\* C7 amended: for a path that does not exist or is no directory,
\* load_from_folder returns the empty list without raising, the same result
\* as for an existing folder with zero valid questions.
C7_MissingFolderIsEmptyList ==
    /\ (pc = "done" /\ folder.kind # "dir")
           => /\ Outcome = Return(<<>>)
              /\ \A z \in ZeroQuestionFolders :
                     Outcome = ManagerLoadFromFolder(z, max_choices)
    /\ (pc = "done" /\ folder \in ZeroQuestionFolders) => Outcome = Return(<<>>)

\* C7 witness: the call on a missing path is over and returned the empty list.
C7_Witness ==
    pc = "done" /\ folder.kind = "missing" /\ ~raised /\ results = <<>>

----------------------------------------------------------------------------
(* Specification SpecJson: one call of json_loader.load_from_files on one     *)
(* uploaded buffer that holds a JSON document                                 *)

InitJson ==
    /\ pc = "call"
    /\ doc \in Documents(MaxWrap)
    /\ found = Idle
    /\ results = <<>>
    /\ raised = FALSE
    /\ raw = Idle /\ max_choices = DefaultMaxChoices /\ q = Idle
    /\ files = <<>> /\ json_objs = <<>> /\ csv_objs = <<>> /\ folder = Idle
    /\ FrontIdle

\* results = json_loader.load_from_files([buffer of doc]); found is the value
\* the Locator returned in the turn of the loop
JsonLoad ==
    /\ pc = "call"
    /\ pc' = "done"
    /\ found' = FindQuestionsInObj(doc)
    /\ LET res == JsonLoadFromFiles(<<JsonText(doc)>>)
       IN  raised' = res.raised /\ results' = res.out
    /\ UNCHANGED <<raw, max_choices, q, doc, files, json_objs, csv_objs, folder, frontVars>>

NextJson == JsonLoad

SpecJson == InitJson /\ [][NextJson]_vars

----------------------------------------------------------------------------
(* Claims about json_loader.load_from_files, checked under SpecJson *)

\* C16 as stated: when the Locator returns a list, the document contributes
\* exactly the elements of that list (none for an empty list); only when the
\* Locator returns no list the elements of a top-level list, or the top-level
\* mapping as one record, or nothing for a scalar.
C16_LocatorListIsContribution ==
    pc = "done" =>
        IF IsList(found) THEN ~raised /\ results = found.kids
        ELSE IF found = Null
        THEN /\ ~raised
             /\ results = IF IsList(doc) THEN doc.kids
                          ELSE IF IsDict(doc) THEN <<doc>> ELSE <<>>
        ELSE TRUE

----------------------------------------------------------------------------
(* Specification SpecCsv: manager.load_from_files on one CSV file whose       *)
(* table has answer columns of every kind                                     *)

\* a header: question_text, then the answer columns it has, correct_answer
\* (under the name cname, <<>> for no such column) last
CsvHeader(useA, useE, useM, cname) ==
    <<kQuestionText>> \o (IF useA THEN <<kAnswer>> ELSE <<>>)
        \o (IF useE THEN <<kAnswerET>> ELSE <<>>)
        \o (IF useM THEN <<kAnswersCommunity>> ELSE <<>>)
        \o (IF cname # <<>> THEN <<cname>> ELSE <<>>)

\* the cells of a line under that header; a short line ends before the last
\* column
CsvCells(useA, useE, useM, cname, line) ==
    <<line.label>> \o (IF useA THEN <<line.a>> ELSE <<>>)
        \o (IF useE THEN <<line.e>> ELSE <<>>)
        \o (IF useM THEN <<line.m>> ELSE <<>>)
        \o (IF cname # <<>> /\ ~line.short THEN <<line.c>> ELSE <<>>)

CsvLines ==
    {[label |-> <<"1">>, a |-> a, e |-> e, m |-> <<"A">>, c |-> c, short |-> FALSE] :
        a \in {<<>>, <<"D">>}, e \in {<<>>, <<"C">>},
        c \in {<<>>, <<"B">>, <<" ", "b", ")", ",", "A">>}}
    \cup {[label |-> <<"2">>, a |-> <<"D">>, e |-> <<"C">>, m |-> <<"A">>, c |-> <<>>, short |-> TRUE]}

CorrectAnswerColumnNames == {<<>>, kCorrectAnswer, <<" ">> \o kCorrectAnswer \o <<" ">>}

\* the tables: a header and at most MaxRows lines
AnswerTables ==
    {CsvText(CsvHeader(ua, ue, um, cn),
             [i \in 1..Len(ls) |-> CsvCells(ua, ue, um, cn, ls[i])], 0) :
        ua \in BOOLEAN, ue \in BOOLEAN, um \in BOOLEAN, cn \in CorrectAnswerColumnNames,
        ls \in SeqsUpTo(CsvLines, MaxRows)}

InitCsv ==
    /\ pc = "call"
    /\ files \in {<<File(<<"b", ".", "c", "s", "v">>, t)>> : t \in AnswerTables}
    /\ max_choices = DefaultMaxChoices
    /\ json_objs = <<>> /\ csv_objs = <<>> /\ results = <<>>
    /\ raised = FALSE
    /\ raw = Idle /\ q = Idle /\ doc = Idle /\ found = Idle /\ folder = Idle
    /\ FrontIdle

NextCsv == LoadFromFiles

SpecCsv == InitCsv /\ [][NextCsv]_vars

----------------------------------------------------------------------------
(* Claims about the records of CSV rows, checked under SpecCsv *)

\* the table of the file loaded
Table == files[1].content

\* the position of the correct_answer column in the header, 0 when none
CorrectAnswerColumn(header) ==
    IF \E i \in 1..Len(header) : Strip(header[i]) = kCorrectAnswer
    THEN CHOOSE i \in 1..Len(header) :
             /\ Strip(header[i]) = kCorrectAnswer
             /\ \A j \in (i + 1)..Len(header) : Strip(header[j]) # kCorrectAnswer
    ELSE 0

\* the text of the correct_answer cell of a line, <<>> when it has none
CorrectAnswerCell(header, cells) ==
    LET i == CorrectAnswerColumn(header)
    IN  IF i = 0 \/ i > Len(cells) THEN <<>> ELSE cells[i]

\* the letters of a correct_answer cell: of each comma-separated part the
\* first letter, in upper case, each letter once
LettersOfCell(cell) ==
    LET parts == SplitComma(cell)
    IN  Dedupe(UpperCasedLetters([i \in 1..Len(parts) |-> Str(parts[i])]))

\* C19: the answer of every record made from a CSV row is determined by the
\* row's correct_answer cell alone: it is the letters of that cell, so rows
\* with the same cell get the same answer whatever their answer, answer_ET and
\* answers_community cells, and without a correct_answer column (or cell) the
\* answer is empty.
C19_AnswerFromCorrectAnswerColumn ==
    pc = "done" =>
        /\ ~raised
        /\ Len(results) = Len(Table.rows)
        /\ \A i \in 1..Len(results) :
               AnswerLetters(results[i])
                   = LettersOfCell(CorrectAnswerCell(Table.header, Table.rows[i]))
        /\ \A i, j \in 1..Len(results) :
               CorrectAnswerCell(Table.header, Table.rows[i])
                       = CorrectAnswerCell(Table.header, Table.rows[j])
                   => Get(results[i], kAnswer) = Get(results[j], kAnswer)
        /\ CorrectAnswerColumn(Table.header) = 0
               => \A i \in 1..Len(results) : Get(results[i], kAnswer) = List(<<>>)

\* C19 witness: two rows with the same correct_answer cell and different
\* answer and answer_ET cells both got the answer B, A.
C19_Witness ==
    /\ pc = "done" /\ ~raised /\ Len(results) = 2
    /\ InSeq(kAnswer, Table.header) /\ InSeq(kAnswerET, Table.header)
    /\ CorrectAnswerColumn(Table.header) # 0
    /\ Table.rows[1] # Table.rows[2]
    /\ Table.rows[1][2] = <<"D">> /\ Table.rows[2][3] = <<"C">>
    /\ AnswerLetters(results[1]) = << <<"B">>, <<"A">> >>
    /\ AnswerLetters(results[2]) = << <<"B">>, <<"A">> >>

----------------------------------------------------------------------------
(* app.py (and streamlit_quiz_frontend.py, which has the same functions):    *)
(* the Letter Extractor, the answer key and the choices of a question.  A     *)
(* list of letters (List[str]) is a sequence of strings, each a sequence of   *)
(* characters.                                                                *)

LowerAZ == {"a","b","c","d","e","f","g","h","i","j","k","l","m",
            "n","o","p","q","r","s","t","u","v","w","x","y","z"}
Digits == {"0","1","2","3","4","5","6","7","8","9"}

\* the characters the regular expression class \w matches
IsWordChar(ch) == ch \in AZ \cup LowerAZ \cup Digits \cup {"_"}

RECURSIVE FindAllFrom_NoEndBoundary(_, _)
FindAllFrom_NoEndBoundary(s, i) ==
    IF i > Len(s) THEN <<>>
    ELSE (IF s[i] \in AZ /\ (i = 1 \/ ~IsWordChar(s[i - 1]))
          THEN << <<s[i]>> >> ELSE <<>>)
         \o FindAllFrom_NoEndBoundary(s, i + 1)

\* ExtractLettersFromString with the pattern \b([A-Z]), the closing \b left out
ExtractLettersFromString_NoEndBoundary(s) == FindAllFrom_NoEndBoundary(s, 1)

RECURSIVE FindAllFrom(_, _)
\* re.findall(r"\b([A-Z])\b", s) from position i on: a character A-Z with a
\* word boundary before it and after it
FindAllFrom(s, i) ==
    IF i > Len(s) THEN <<>>
    ELSE (IF /\ s[i] \in AZ
             /\ (i = 1 \/ ~IsWordChar(s[i - 1]))
             /\ (i = Len(s) \/ ~IsWordChar(s[i + 1]))
          THEN << <<s[i]>> >> ELSE <<>>)
         \o FindAllFrom(s, i + 1)

\* extract_letters_from_string(s)
ExtractLettersFromString(s) == FindAllFrom(s, 1)

RECURSIVE CommunityLetters(_)
\* for item in ac: if isinstance(item, str): candidates.extend(extract(item))
CommunityLetters(items) ==
    IF items = <<>> THEN <<>>
    ELSE (IF IsStr(Head(items)) THEN ExtractLettersFromString(Head(items).s) ELSE <<>>)
         \o CommunityLetters(Tail(items))

RECURSIVE ItemLetters(_)
\* for v in val: candidates.extend(extract_letters_from_string(str(v)))
ItemLetters(items) ==
    IF items = <<>> THEN <<>>
    ELSE ExtractLettersFromString(PyStr(Head(items))) \o ItemLetters(Tail(items))

\* what one turn of "for key in ('answer_ET', 'answer')" adds for the value
FieldLetters(val) ==
    IF ~Truthy(val) THEN <<>>
    ELSE IF IsList(val) THEN ItemLetters(val.kids)
    ELSE ExtractLettersFromString(PyStr(val))

\* get_correct_answers(q)
GetCorrectAnswers(qn) ==
    LET ac == Get(qn, kAnswersCommunity)
        fromac == IF Truthy(ac) /\ IsList(ac) THEN CommunityLetters(ac.kids) ELSE <<>>
        candidates == IF fromac = <<>>
                      THEN FieldLetters(Get(qn, kAnswerET)) \o FieldLetters(Get(qn, kAnswer))
                      ELSE fromac
    IN  Dedupe([i \in 1..Len(candidates) |-> Upper(candidates[i])])

\* get_choices(q); None is Null
GetChoices(qn) ==
    LET ch == Get(qn, kChoices)
    IN  IF IsDict(ch) /\ Truthy(ch) THEN NormalizedChoices(ch, 1, EmptyDict) ELSE Null

----------------------------------------------------------------------------
(* Specification SpecExtract: one call of extract_letters_from_string *)

\* number of words in a generated free text
MaxWords == 3

Words ==
    {<<"I">>,
     <<"t", "h", "i", "n", "k">>,
     <<"B">>,
     <<"i", "s">>,
     <<"r", "i", "g", "h", "t", ",">>,
     <<"n", "o", "t">>,
     <<"D">>,
     <<"a", "B">>,
     <<"A", ")">>,
     <<"_", "C">>,
     <<"D", "a">>}

RECURSIVE Sentences(_)
\* the texts of at most n words, each followed by a space but the last
Sentences(n) ==
    IF n = 0 THEN {<<>>}
    ELSE Sentences(n - 1) \cup Words
         \cup {x \o <<" ">> \o w : x \in Sentences(n - 1) \ {<<>>}, w \in Words}

\* "I think B is right, not D"
ThinkBNotD ==
    <<"I", " ", "t", "h", "i", "n", "k", " ", "B", " ", "i", "s", " ">>
    \o <<"r", "i", "g", "h", "t", ",", " ", "n", "o", "t", " ", "D">>

FreeTexts == Sentences(MaxWords) \cup {ThinkBNotD}

InitExtract ==
    /\ pc = "call"
    /\ text \in FreeTexts
    /\ letters = <<>>
    /\ question = Idle /\ resp = Idle /\ corr = <<>> /\ gradeable = FALSE
    /\ user_letters = <<>> /\ is_correct = FALSE
    /\ questions = <<>> /\ responses = <<>> /\ current_idx = 0
    /\ loaded = FALSE /\ shown = -1 /\ event = "none"
    /\ LoaderIdle

\* letters = extract_letters_from_string(text)
Extract ==
    /\ pc = "call"
    /\ pc' = "done"
    /\ letters' = ExtractLettersFromString(text)
    /\ UNCHANGED <<text, question, resp, corr, gradeable, user_letters, is_correct,
                   questions, responses, current_idx, loaded, shown, event, loaderVars>>

NextExtract == Extract

SpecExtract == InitExtract /\ [][NextExtract]_vars

----------------------------------------------------------------------------
(* Claims about the Letter Extractor, checked under SpecExtract *)

\* C18 as stated: for "I think B is right, not D" the result is B, D.
C18_ThinkBNotD_BD ==
    (pc = "done" /\ text = ThinkBNotD) => letters = << <<"B">>, <<"D">> >>

\* the positions of the words that are one upper-case letter: a character A-Z
\* whose neighbours, if any, are no word characters
LoneUpperCase(s) ==
    {i \in 1..Len(s) : /\ s[i] \in AZ
                       /\ \A j \in {i - 1, i + 1} \cap (1..Len(s)) : ~IsWordChar(s[j])}

\* the n-th element of a set of numbers, in increasing order
Nth(S, n) == CHOOSE i \in S : Cardinality({j \in S : j < i}) = n - 1

\* C18 amended: for "I think B is right, not D" the result is I, B, D: the
\* result is, for every text, the words that are one upper-case letter, from
\* left to right, and the pronoun I is such a word.
C18_ThinkBNotD_IBD ==
    pc = "done" =>
        /\ text = ThinkBNotD => letters = << <<"I">>, <<"B">>, <<"D">> >>
        /\ Len(letters) = Cardinality(LoneUpperCase(text))
        /\ \A n \in 1..Len(letters) : letters[n] = <<text[Nth(LoneUpperCase(text), n)]>>

\* C18 witness: the call on "I think B is right, not D" returned I, B, D.
C18_Witness ==
    pc = "done" /\ text = ThinkBNotD /\ letters = << <<"I">>, <<"B">>, <<"D">> >>

----------------------------------------------------------------------------
(* app.py: one turn of the grading loop of "Finish quiz and show summary" *)

\* the elements of a list
Elems(xs) == {xs[i] : i \in 1..Len(xs)}

\* the letters taken from the response: of a list the elements upper-cased, of
\* a string the letters the extractor finds, of anything else none
UserLetters(r) ==
    IF IsList(r) THEN [i \in 1..Len(r.kids) |-> Upper(r.kids[i].s)]
    ELSE IF IsStr(r) THEN ExtractLettersFromString(r.s)
    ELSE <<>>

\* Verdict without the test len(user_letters) > 0
Verdict_Vacuous(ul, c) == Elems(ul) = Elems(c)

\* set(user_letters) == set(corr) and len(user_letters) > 0
Verdict(ul, c) == Elems(ul) = Elems(c) /\ Len(ul) > 0

----------------------------------------------------------------------------
(* Specification SpecGrade: one turn of the grading loop *)

\* longest list of letters a response holds
MaxRespLen == 2

GradedQuestions ==
    {MkRecord(<< <<kAnswersCommunity, m>>, <<kAnswerET, e>>, <<kAnswer, a>>, <<kChoices, ch>> >>) :
        m \in {Absent, List(<<>>), List(<<Str(<<"A">>)>>), List(<<Str(<<"C", " ", "A">>), PyInt(<<"1">>)>>),
               Str(<<"A">>)},
        e \in {Absent, Null, Str(<<>>), Str(<<"B">>)},
        a \in {Absent, List(<<>>), List(<<Str(<<"C">>)>>), List(<<Str(<<"A">>), Str(<<"C">>)>>),
               List(<<Str(<<"b">>)>>), Str(<<"A">>)},
        ch \in {Absent, EmptyDict, Dict(<< <<"a">>, <<"C">> >>, <<Str(<<"x">>), PyInt(<<"2">>)>>)}}

\* what st.session_state.responses holds for a question: the letters chosen,
\* the empty list of a skipped question, a free text, or nothing (None)
Responses ==
    {List([i \in 1..Len(ls) |-> Str(<<ls[i]>>)]) : ls \in SeqsUpTo({"A", "a", "C", "c"}, MaxRespLen)}
    \cup {Str(<<>>), Str(<<"A">>), Str(<<"a">>), Str(<<"C", " ", "A">>), Null}

InitGrade ==
    /\ pc = "call"
    /\ question \in GradedQuestions
    /\ resp \in Responses
    /\ corr = <<>> /\ gradeable = FALSE /\ user_letters = <<>> /\ is_correct = FALSE
    /\ text = Idle /\ letters = <<>>
    /\ questions = <<>> /\ responses = <<>> /\ current_idx = 0
    /\ loaded = FALSE /\ shown = -1 /\ event = "none"
    /\ LoaderIdle

\* the body of "for idx, question in enumerate(questions)" up to the verdict
Grade ==
    /\ pc = "call"
    /\ pc' = "done"
    /\ corr' = GetCorrectAnswers(question)
    /\ gradeable' = (GetCorrectAnswers(question) # <<>> /\ Truthy(GetChoices(question)))
    /\ user_letters' = UserLetters(resp)
    /\ is_correct' = Verdict(UserLetters(resp), GetCorrectAnswers(question))
    /\ UNCHANGED <<text, letters, question, resp, questions, responses, current_idx,
                   loaded, shown, event, loaderVars>>

NextGrade == Grade

SpecGrade == InitGrade /\ [][NextGrade]_vars

----------------------------------------------------------------------------
(* Claims about the grader, checked under SpecGrade *)

\* the set of response letters: the elements of a list response in upper
\* case, the lone upper-case letters of a free text, nothing otherwise
ResponseLetterSet ==
    IF IsList(resp) THEN {Upper(resp.kids[i].s) : i \in 1..Len(resp.kids)}
    ELSE IF IsStr(resp) THEN {<<resp.s[i]>> : i \in LoneUpperCase(resp.s)}
    ELSE {}

\* the set of resolved answer letters
AnswerLetterSet == {corr[i] : i \in 1..Len(corr)}

GraderSources == <<kAnswersCommunity, kAnswerET, kAnswer>>

\* the letters get_correct_answers returns for the field alone
SourceLetters(qn, k) == GetCorrectAnswers(Dict(<<k>>, <<Get(qn, k)>>))

\* C15 as stated: the letters returned all come from one field, the first of
\* answers_community, answer_ET, answer that yields at least one letter.
C15_SourcesNeverMerged ==
    pc = "done" =>
        LET yielding == {i \in 1..Len(GraderSources) :
                            SourceLetters(question, GraderSources[i]) # <<>>}
        IN  IF yielding = {} THEN corr = <<>>
            ELSE corr = SourceLetters(question, GraderSources[Least(yielding)])

----------------------------------------------------------------------------
(* app.py: the session state and one run of the script.  Streamlit runs the  *)
(* script from the top for every widget the user touches (event).  A run is   *)
(* modelled in two steps: the sections "Load quizzes" and navigation (lines   *)
(* 160-204), whose action depends on the widget, then the question section    *)
(* (lines 206-245), which displays questions[current_idx] and stores the      *)
(* value of its answer widget.  The run stops before the question section     *)
(* when nothing is loaded (st.stop(), line 191) or when a loader raised.      *)
(* streamlit_quiz_frontend.py has the same sections (lines 152-253).          *)

\* number of files in the uploader or in the local folder
MaxUploads == 1

\* parse_uploaded_jsons(files): the loop of json_loader.load_from_files, with
\* the frontend's own copy of the Locator
ParseUploadedJsons(cs) == JsonLoadFromFiles(cs)

\* load_from_local_folder(folder_path)
LoadFromLocalFolder(fd) ==
    IF fd.kind # "dir" THEN Return(<<>>)
    ELSE JsonLoadFromFiles(Globbed(fd.entries, DotJson, 1))

\* the script goes on to the question section (line 189 does not stop it)
Passes(ld, qs) == ld /\ qs # <<>>

\* Previous: if current_idx > 0: current_idx -= 1
PrevIdx(idx) == IF idx > 0 THEN idx - 1 ELSE idx

\* NextIdx with the test current_idx < n_questions
NextIdx_OffByOne(idx, n) == IF idx < n THEN idx + 1 ELSE idx

\* Next: if current_idx < n_questions - 1: current_idx += 1
NextIdx(idx, n) == IF idx < n - 1 THEN idx + 1 ELSE idx

\* responses[idx] = v
Store(r, idx, v) == [k \in (DOMAIN r) \cup {idx} |-> IF k = idx THEN v ELSE r[k]]

\* questions[idx] raises IndexError
IndexRaises(qs, idx) == idx >= Len(qs) \/ idx < -Len(qs)

\* questions[idx], for an index that does not raise (a negative one counts
\* from the end)
Item(qs, idx) == IF idx >= 0 THEN qs[idx + 1] ELSE qs[Len(qs) + idx + 1]

----------------------------------------------------------------------------
(* Specification SpecUI: runs of the script of app.py *)

UiContents ==
    {JsonText(Dict(<<kQuestions>>, <<List(<<LabelledQuestion("1", "A"), LabelledQuestion("2", "B")>>)>>)),
     JsonText(LabelledQuestion("4", "c")),
     JsonText(List(<<PyInt(<<"1">>)>>)),
     JsonText(Dict(<<kPageProps>>, <<Dict(<<kQuestions>>, <<PyInt(<<"5">>)>>)>>))}

UiFiles ==
    {File(<<"a", ".", "j", "s", "o", "n">>, c) : c \in UiContents}

\* what the uploader holds when the button is pressed; <<>>: nothing selected
UploadBatches == SeqsUpTo(UiFiles, MaxUploads)

\* the files of a local folder: two questions, a file that is not *.json, and
\* a document whose "questions" is a number
UiFolderFiles ==
    {File(<<"a", ".", "j", "s", "o", "n">>,
          JsonText(Dict(<<kQuestions>>, <<List(<<LabelledQuestion("1", "A"), LabelledQuestion("2", "B")>>)>>))),
     File(<<"c">>, JsonText(LabelledQuestion("4", "c"))),
     File(<<"a", ".", "j", "s", "o", "n">>,
          JsonText(Dict(<<kPageProps>>, <<Dict(<<kQuestions>>, <<PyInt(<<"5">>)>>)>>)))}

\* what the text input of the folder holds: nothing ("nopath"), or a path
UiFolders ==
    {Folder("nopath", <<>>), Folder("missing", <<>>)}
    \cup {Folder("dir", es) : es \in SeqsUpTo(UiFolderFiles, MaxUploads)}

\* the values the answer widgets and the skip box put into responses
WidgetValues == {List(<<Str(<<"A">>)>>), List(<<>>)}

InitUI ==
    /\ pc = "idle"
    /\ questions = <<>> /\ responses = <<>> /\ current_idx = 0 /\ loaded = FALSE
    /\ shown = -1 /\ event = "none"
    /\ text = Idle /\ letters = <<>>
    /\ question = Idle /\ resp = Idle /\ corr = <<>> /\ gradeable = FALSE
    /\ user_letters = <<>> /\ is_correct = FALSE
    /\ LoaderIdle

\* a run started by the button "Load uploaded files": lines 163-171, then the
\* test of line 189
LoadUploadedFiles ==
    /\ pc = "idle"
    /\ event' = "upload" /\ shown' = -1
    /\ \E uploaded \in UploadBatches :
          LET res == ParseUploadedJsons([i \in 1..Len(uploaded) |-> uploaded[i].content])
          IN  /\ files' = uploaded
              /\ IF uploaded = <<>>
                 THEN /\ raised' = FALSE /\ results' = <<>>
                      /\ UNCHANGED <<questions, loaded, responses, current_idx>>
                      /\ pc' = IF Passes(loaded, questions) THEN "show" ELSE "idle"
                 ELSE IF res.raised
                 THEN /\ raised' = TRUE /\ results' = <<>>
                      /\ UNCHANGED <<questions, loaded, responses, current_idx>>
                      /\ pc' = "idle"
                 ELSE /\ raised' = FALSE /\ results' = res.out
                      /\ questions' = res.out
                      /\ loaded' = TRUE
                      /\ responses' = <<>>
                      /\ current_idx' = 0
                      /\ pc' = IF Passes(TRUE, res.out) THEN "show" ELSE "idle"
    /\ UNCHANGED <<raw, max_choices, q, doc, found, json_objs, csv_objs, folder,
                   text, letters, question, resp, corr, gradeable, user_letters, is_correct>>

\* a run started by the button "Load from local folder": lines 174-184, then
\* the test of line 189
LoadFromLocalFolderButton ==
    /\ pc = "idle"
    /\ event' = "folder" /\ shown' = -1
    /\ \E fd \in UiFolders :
          LET res == LoadFromLocalFolder(fd)
          IN  /\ folder' = fd
              /\ IF fd.kind = "nopath"
                 THEN /\ raised' = FALSE /\ results' = <<>>
                      /\ UNCHANGED <<questions, loaded, responses, current_idx>>
                      /\ pc' = IF Passes(loaded, questions) THEN "show" ELSE "idle"
                 ELSE IF res.raised
                 THEN /\ raised' = TRUE /\ results' = <<>>
                      /\ UNCHANGED <<questions, loaded, responses, current_idx>>
                      /\ pc' = "idle"
                 ELSE IF res.out # <<>>
                 THEN /\ raised' = FALSE /\ results' = res.out
                      /\ questions' = res.out
                      /\ loaded' = TRUE
                      /\ responses' = <<>>
                      /\ current_idx' = 0
                      /\ pc' = "show"
                 ELSE /\ raised' = FALSE /\ results' = <<>>
                      /\ UNCHANGED <<questions, loaded, responses, current_idx>>
                      /\ pc' = IF Passes(loaded, questions) THEN "show" ELSE "idle"
    /\ UNCHANGED <<raw, max_choices, q, doc, found, json_objs, csv_objs, files,
                   text, letters, question, resp, corr, gradeable, user_letters, is_correct>>

\* a run started by the button "Previous" (shown only past line 191)
Previous ==
    /\ pc = "idle" /\ Passes(loaded, questions)
    /\ event' = "prev" /\ shown' = -1 /\ raised' = FALSE
    /\ current_idx' = PrevIdx(current_idx)
    /\ pc' = "show"
    /\ UNCHANGED <<raw, max_choices, q, doc, found, files, json_objs, csv_objs, results, folder,
                   text, letters, question, resp, corr, gradeable, user_letters, is_correct,
                   questions, responses, loaded>>

\* a run started by the button "Next" (shown only past line 191)
NextQuestion ==
    /\ pc = "idle" /\ Passes(loaded, questions)
    /\ event' = "next" /\ shown' = -1 /\ raised' = FALSE
    /\ current_idx' = NextIdx(current_idx, Len(questions))
    /\ pc' = "show"
    /\ UNCHANGED <<raw, max_choices, q, doc, found, files, json_objs, csv_objs, results, folder,
                   text, letters, question, resp, corr, gradeable, user_letters, is_correct,
                   questions, responses, loaded>>

\* the question section, lines 206-245: q = questions[current_idx] is shown
\* and the value of its answer widget (or [] for the skip box) is stored
Display ==
    /\ pc = "show"
    /\ pc' = "idle"
    /\ IF IndexRaises(questions, current_idx) \/ ~IsDict(Item(questions, current_idx))
       THEN raised' = TRUE /\ UNCHANGED <<shown, responses>>
       ELSE /\ raised' = FALSE
            /\ shown' = current_idx
            /\ \E v \in WidgetValues : responses' = Store(responses, current_idx, v)
    /\ files' = <<>> /\ folder' = Idle /\ results' = <<>>
    /\ UNCHANGED <<raw, max_choices, q, doc, found, json_objs, csv_objs,
                   text, letters, question, resp, corr, gradeable, user_letters, is_correct,
                   questions, current_idx, loaded, event>>

NextUI ==
    \/ LoadUploadedFiles
    \/ LoadFromLocalFolderButton
    \/ Previous
    \/ NextQuestion
    \/ Display

SpecUI == InitUI /\ [][NextUI]_vars

----------------------------------------------------------------------------
(* Claims about the session state, checked under SpecUI *)

\* the step is the load section of a run started by a load button
LoadStep == pc = "idle" /\ event' \in {"upload", "folder"}

\* the load succeeded: files were selected and parsed, or the folder gave at
\* least one question
LoadSucceeded ==
    /\ LoadStep /\ ~raised'
    /\ \/ event' = "upload" /\ files' # <<>>
       \/ event' = "folder" /\ results' # <<>>

\* the folder load yielded zero questions
FolderLoadEmpty ==
    LoadStep /\ event' = "folder" /\ folder'.kind # "nopath" /\ ~raised' /\ results' = <<>>

====
